---- MODULE Spec2Model ----
(***************************************************************************)
(* Suggestion-merge workflow of the dictionary backend:                    *)
(*   src/src/controllers/words.js   (createWord, mergeWord, deleteWord)    *)
(*   src/unnamed/part_000           (the examples controller: createExample*)
(*                                   executeMergeExample, mergeExample)    *)
(* The document store is modelled as four collections keyed by id.  In     *)
(* Spec every request handler is one action that runs the handler to       *)
(* quiescence; in StepSpec every awaited storage operation is one step and *)
(* the steps of the requests in flight interleave.                         *)
(***************************************************************************)
EXTENDS Integers, Sequences, FiniteSets, TLC

(* ------------------------------ bounds --------------------------------- *)
MaxWords == 2
MaxExamples == 3
MaxSeeds == 3
MaxLen == 2

(* ------------------------------ identifiers ---------------------------- *)
\* ObjectIds are globally unique: one id space per collection, never reused.
Null == <<"null", 0>>
BadId == <<"bad", 0>>
WordId(n) == <<"W", n>>
ExampleId(n) == <<"E", n>>
WordSuggestionId(n) == <<"WS", n>>
ExampleSuggestionId(n) == <<"ES", n>>

\* ids that name no stored document: no save ever hands them out
MissingWordId == WordId(0)
MissingExampleId == ExampleId(0)

AllWordIds == {WordId(n) : n \in 1..MaxWords}
AllExampleIds == {ExampleId(n) : n \in 1..MaxExamples}
AllWordSuggestionIds == {WordSuggestionId(n) : n \in 1..MaxSeeds}
AllExampleSuggestionIds == {ExampleSuggestionId(n) : n \in 1..MaxSeeds}

\* mongoose.Types.ObjectId.isValid(id)
IsValidObjectId(id) == id # BadId /\ id # Null

Users == {"U1"}

(* ------------------------------ sequences ------------------------------ *)
Range(s) == {s[i] : i \in 1..Len(s)}

Includes(s, v) == \E i \in 1..Len(s) : s[i] = v

NoDuplicates(s) == \A i, j \in 1..Len(s) : s[i] = s[j] => i = j

\* the subsequence of s at the positions in keep, in order
SubSeqAt(s, keep) ==
  LET n == Cardinality(keep)
      idx(k) == CHOOSE i \in keep : Cardinality({j \in keep : j < i}) = k - 1
  IN  [k \in 1..n |-> s[idx(k)]]

\* lodash uniqBy(array, iteratee): keeps the first element of each key
UniqBy(s, Key(_)) ==
  SubSeqAt(s, {i \in 1..Len(s) : \A j \in 1..(i - 1) : Key(s[j]) # Key(s[i])})

Identity(v) == v

\* lodash uniq(array): SameValueZero on the elements themselves
Uniq(s) == UniqBy(s, Identity)

\* The associatedWords of a loaded document is an array of ObjectId objects,
\* one object per slot (hence the toString() comparisons of words.js:159 and
\* words.js:267-268).  An element is the pair of its identity and its value.
ObjectIds(ids) == [i \in 1..Len(ids) |-> [ref |-> i, val |-> ids[i]]]

IdString(objectId) == objectId.val

Values(objs) == [i \in 1..Len(objs) |-> objs[i].val]

\* mutant: the union without the dedup
Reconcile_NoDedup(a, b) == a \o b

\* mutant: the union keeps the primary Word's values only
Reconcile_DropsSecond(a, b) == UniqBy(a, Identity)

\* union-with-dedup used on definitions / variations / stems by deleteWord
Reconcile(a, b) == UniqBy(a \o b, Identity)

\* mutant: the relinker forgets to remove oldId
RelinkAssociatedWords_KeepsOld(associatedWords, oldId, newId) ==
  Values(UniqBy(ObjectIds(associatedWords \o <<newId>>), IdString))

\* mutant: the relinker forgets the uniqBy
RelinkAssociatedWords_NoUniq(associatedWords, oldId, newId) ==
  SelectSeq(associatedWords \o <<newId>>, LAMBDA a : a # oldId)

\* the new associatedWords that the relinker computes for one Example
RelinkAssociatedWords(associatedWords, oldId, newId) ==
  LET pushed == ObjectIds(associatedWords \o <<newId>>)
      kept == SelectSeq(pushed, LAMBDA o : IdString(o) # oldId)
  IN  Values(UniqBy(kept, IdString))

(* ------------------------------ inputs --------------------------------- *)
\* the text of an example sentence; the first has neither Igbo nor English
ExampleData ==
  { [igbo |-> "", english |-> ""],
    [igbo |-> "Ana m eri nri", english |-> "I am eating food"] }

\* the word data that suggestions and direct creations carry: a clean entry
\* with one embedded example, and one that lists values twice
WordData ==
  { [word |-> "nri", wordClass |-> "n", definitions |-> <<"food">>,
     variations |-> <<>>, stems |-> <<"ri">>,
     examples |-> <<[igbo |-> "Ana m eri nri", english |-> "I am eating food"]>>],
    [word |-> "eri", wordClass |-> "v", definitions |-> <<"eat", "eat">>,
     variations |-> <<"nri", "nri">>, stems |-> <<"ri", "ri">>,
     examples |-> <<>>] }

\* outcome of the user lookup and of the sender during notification
NotifyCases == {"noAuthor", "noEmail", "email", "senderFails", "lookupFails"}

(* ------------------------------ state ---------------------------------- *)
VARIABLES
  words,               \* Word collection: id -> document
  examples,            \* Example collection: id -> document
  wordSuggestions,     \* WordSuggestion collection: id -> document
  exampleSuggestions,  \* ExampleSuggestion collection: id -> document
  counts,              \* ids handed out so far, per collection
  last,                \* the last request: handler, arguments and outcome
  pure,                \* inputs and outputs of the pure-function runs
  procs                \* the requests in flight: position and loaded documents

vars == <<words, examples, wordSuggestions, exampleSuggestions, counts, last, pure, procs>>

NoRequest == [op |-> "none", res |-> Null, err |-> "", sent |-> FALSE]

\* what the caller of a handler observes: res.send(result) or next(err), and
\* whether sendMergedEmail was called
Request(op, res, err, sent) == [op |-> op, res |-> res, err |-> err, sent |-> sent]

NoPure == [fn |-> "none"]

\* no request is in flight: every handler runs to completion in one step
NoProcs == <<>>

Init ==
  /\ words = <<>>
  /\ examples = <<>>
  /\ wordSuggestions = <<>>
  /\ exampleSuggestions = <<>>
  /\ counts = [word |-> 0, example |-> 0, wordSuggestion |-> 0, exampleSuggestion |-> 0]
  /\ last = NoRequest
  /\ pure = NoPure
  /\ procs = NoProcs

Exists(coll, id) == id \in DOMAIN coll

Put(coll, id, doc) == [i \in (DOMAIN coll) \cup {id} |-> IF i = id THEN doc ELSE coll[i]]

Remove(coll, ids) == [i \in (DOMAIN coll) \ ids |-> coll[i]]

\* the whole store as one value, threaded through the operations below
DB ==
  [words |-> words, examples |-> examples, wordSuggestions |-> wordSuggestions,
   exampleSuggestions |-> exampleSuggestions, counts |-> counts]

Commit(db) ==
  /\ words' = db.words
  /\ examples' = db.examples
  /\ wordSuggestions' = db.wordSuggestions
  /\ exampleSuggestions' = db.exampleSuggestions
  /\ counts' = db.counts

\* all the orders in which the parallel branches of a Promise.all may run
Orders(S) == {o \in [1..Cardinality(S) -> S] : \A x \in S : \E i \in 1..Cardinality(S) : o[i] = x}

(* ------------------------------ examples controller -------------------- *)
\* createExample(data): new Example(data).save()
CreateExample(db, data) ==
  LET id == ExampleId(db.counts.example + 1)
      doc == [igbo |-> data.igbo, english |-> data.english,
              associatedWords |-> data.associatedWords]
  IN  [db |-> [db EXCEPT !.examples = Put(@, id, doc), !.counts.example = @ + 1],
       id |-> id]

\* findExampleByAssociatedWordId(id): Example.find({associatedWords: {$in: [id]}})
FindExampleByAssociatedWordId(db, id) ==
  {e \in DOMAIN db.examples : Includes(db.examples[e].associatedWords, id)}

\* updateDocumentMerge(suggestionDoc, originalDocId, mergedBy) on an
\* Example Suggestion: stamp the suggestion and persist it
StampExampleSuggestion(db, esId, docId, mergedBy) ==
  [db EXCEPT !.exampleSuggestions =
     Put(@, esId, [@[esId] EXCEPT !.merged = docId, !.mergedBy = mergedBy])]

\* updateDocumentMerge(suggestionDoc, originalDocId, mergedBy) on a
\* Word Suggestion
StampWordSuggestion(db, wsId, docId, mergedBy) ==
  [db EXCEPT !.wordSuggestions =
     Put(@, wsId, [@[wsId] EXCEPT !.merged = docId, !.mergedBy = mergedBy])]

\* mergeIntoExample: findOneAndUpdate by originalExampleId, then stamp
MergeIntoExample(db, esId, mergedBy) ==
  LET es == db.exampleSuggestions[esId]
      id == es.originalExampleId
      doc == [igbo |-> es.igbo, english |-> es.english,
              associatedWords |-> es.associatedWords]
  IN  IF ~Exists(db.examples, id)
      THEN [db |-> db, err |-> "Example doesn't exist", res |-> Null]
      ELSE [db |-> StampExampleSuggestion(
                     [db EXCEPT !.examples = Put(@, id, doc)], esId, id, mergedBy),
            err |-> "", res |-> id]

\* createExampleFromSuggestion: createExample(toObject()), then stamp
CreateExampleFromSuggestion(db, esId, mergedBy) ==
  LET es == db.exampleSuggestions[esId]
      made == CreateExample(db, es)
  IN  [db |-> StampExampleSuggestion(made.db, esId, made.id, mergedBy),
       err |-> "", res |-> made.id]

\* the duplicate test of executeMergeExample: lodash uniq over the loaded
\* array of ObjectId objects
HasDuplicateAssociatedWords(associatedWords) ==
  Len(associatedWords) # Len(Uniq(ObjectIds(associatedWords)))

\* mutant: the associated words are not looked up before the merge
ExecuteMergeExample_NoWordLookup(db, esId, mergedBy) ==
  LET Fail(msg) == [db |-> db, err |-> msg, res |-> Null]
  IN  IF ~Exists(db.exampleSuggestions, esId)
      THEN Fail("There is no associated example suggestion, double check your provided data")
      ELSE LET es == db.exampleSuggestions[esId] IN
        IF es.igbo = "" /\ es.english = ""
        THEN Fail("Required information is missing, double check your provided data")
        ELSE IF es.originalExampleId # Null
        THEN MergeIntoExample(db, esId, mergedBy)
        ELSE CreateExampleFromSuggestion(db, esId, mergedBy)

\* executeMergeExample(exampleSuggestionId, mergedBy)
ExecuteMergeExample(db, esId, mergedBy) ==
  LET Fail(msg) == [db |-> db, err |-> msg, res |-> Null]
  IN  IF ~Exists(db.exampleSuggestions, esId)
      THEN Fail("There is no associated example suggestion, double check your provided data")
      ELSE LET es == db.exampleSuggestions[esId] IN
        IF es.igbo = "" /\ es.english = ""
        THEN Fail("Required information is missing, double check your provided data")
        ELSE IF \E a \in Range(es.associatedWords) : ~IsValidObjectId(a)
        THEN Fail("Invalid id found in associatedWords")
        ELSE IF \E a \in Range(es.associatedWords) : ~Exists(db.words, a)
        THEN Fail("Example suggestion associated words can only contain Word ids before merging")
        ELSE IF HasDuplicateAssociatedWords(es.associatedWords)
        THEN Fail("Duplicates are not allows in associated words")
        ELSE IF es.originalExampleId # Null
        THEN MergeIntoExample(db, esId, mergedBy)
        ELSE CreateExampleFromSuggestion(db, esId, mergedBy)

\* handleSendingMergedEmail: the lookup is awaited, the sender is not
HandleSendingMergedEmail(notifyCase) ==
  CASE notifyCase = "noAuthor" -> [err |-> "", sent |-> FALSE]
    [] notifyCase = "noEmail" -> [err |-> "", sent |-> FALSE]
    [] notifyCase = "email" -> [err |-> "", sent |-> TRUE]
    [] notifyCase = "senderFails" -> [err |-> "", sent |-> FALSE]
    [] notifyCase = "lookupFails" -> [err |-> "user lookup failed", sent |-> FALSE]

\* a handler's try block after the merge itself: notify, then res.send(result)
Respond(op, merged, notifyCase) ==
  IF merged.err # ""
  THEN Request(op, Null, merged.err, FALSE)
  ELSE LET mail == HandleSendingMergedEmail(notifyCase)
       IN  Request(op, IF mail.err = "" THEN merged.res ELSE Null, mail.err, mail.sent)

(* ------------------------------ words controller ----------------------- *)
\* the embedded examples of createWord, each saved with [newWord.id]
RECURSIVE CreateExamples(_, _, _)
CreateExamples(db, embedded, wordId) ==
  IF embedded = <<>>
  THEN [db |-> db, ids |-> <<>>]
  ELSE LET made == CreateExample(db, [igbo |-> Head(embedded).igbo,
                                      english |-> Head(embedded).english,
                                      associatedWords |-> <<wordId>>])
           rest == CreateExamples(made.db, Tail(embedded), wordId)
       IN  [db |-> rest.db, ids |-> <<made.id>> \o rest.ids]

\* createWord(data)
CreateWord(db, data) ==
  LET id == WordId(db.counts.word + 1)
      newWord == [word |-> data.word, wordClass |-> data.wordClass,
                  definitions |-> data.definitions, variations |-> data.variations,
                  stems |-> data.stems, examples |-> <<>>]
      db1 == [db EXCEPT !.words = Put(@, id, newWord), !.counts.word = @ + 1]
      saved == CreateExamples(db1, data.examples, id)
  IN  [db |-> [saved.db EXCEPT !.words = Put(@, id, [newWord EXCEPT !.examples = saved.ids])],
       err |-> "", res |-> id]

\* mutant: only the first matching Example Suggestion is relinked and merged
MergeNestedExampleSuggestions_FirstOnly(db, order, suggestionId, wordId, mergedBy) ==
  IF order = <<>>
  THEN [db |-> db, err |-> ""]
  ELSE LET esId == Head(order)
           es == db.exampleSuggestions[esId]
           removed == SelectSeq(es.associatedWords, LAMBDA a : a # suggestionId)
           associatedWords == IF Includes(removed, wordId) THEN removed
                              ELSE Append(removed, wordId)
           db1 == [db EXCEPT !.exampleSuggestions =
                     Put(@, esId, [es EXCEPT !.associatedWords = associatedWords])]
           merged == ExecuteMergeExample(db1, esId, mergedBy)
       IN  [db |-> merged.db, err |-> merged.err]

\* one branch of the Promise.all of updateSuggestionAfterMerge, for each
\* matching Example Suggestion in turn; a branch that throws does not stop
\* the other branches, and the first rejection is the one reported
RECURSIVE MergeNestedExampleSuggestions(_, _, _, _, _)
MergeNestedExampleSuggestions(db, order, suggestionId, wordId, mergedBy) ==
  IF order = <<>>
  THEN [db |-> db, err |-> ""]
  ELSE LET esId == Head(order)
           es == db.exampleSuggestions[esId]
           removed == SelectSeq(es.associatedWords, LAMBDA a : a # suggestionId)
           associatedWords == IF Includes(removed, wordId) THEN removed
                              ELSE Append(removed, wordId)
           db1 == [db EXCEPT !.exampleSuggestions =
                     Put(@, esId, [es EXCEPT !.associatedWords = associatedWords])]
           merged == ExecuteMergeExample(db1, esId, mergedBy)
           rest == MergeNestedExampleSuggestions(merged.db, Tail(order), suggestionId,
                                                 wordId, mergedBy)
       IN  [db |-> rest.db, err |-> IF merged.err # "" THEN merged.err ELSE rest.err]

\* mutant: the query of the cascade matches every Example Suggestion
NestedExampleSuggestions_All(db, suggestionId) == DOMAIN db.exampleSuggestions

\* ExampleSuggestion.find({associatedWords: suggestionDoc.id})
NestedExampleSuggestions(db, suggestionId) ==
  {e \in DOMAIN db.exampleSuggestions :
     Includes(db.exampleSuggestions[e].associatedWords, suggestionId)}

\* updateSuggestionAfterMerge(suggestionDoc, originalWordDoc, mergedBy)
UpdateSuggestionAfterMerge(db, suggestionId, wordId, mergedBy, order) ==
  LET stamped == StampWordSuggestion(db, suggestionId, wordId, mergedBy)
  IN  MergeNestedExampleSuggestions(stamped, order, suggestionId, wordId, mergedBy)

\* mutant: the update leaves the stems of the original Word
MergeIntoWord_KeepsStems(db, suggestionId, mergedBy, order) ==
  LET ws == db.wordSuggestions[suggestionId]
      id == ws.originalWordId
  IN  IF ~Exists(db.words, id)
      THEN [db |-> db, err |-> "Word doesn't exist", res |-> Null]
      ELSE LET updated == [db.words[id] EXCEPT
                              !.word = ws.word, !.wordClass = ws.wordClass,
                              !.definitions = ws.definitions,
                              !.variations = ws.variations]
               db1 == [db EXCEPT !.words = Put(@, id, updated)]
               after == UpdateSuggestionAfterMerge(db1, suggestionId, id, mergedBy, order)
           IN  [db |-> after.db, err |-> after.err,
                res |-> IF after.err = "" THEN id ELSE Null]

\* mutant: findOneAndUpdate inserts the Word when it is missing (upsert)
MergeIntoWord_Upserts(db, suggestionId, mergedBy, order) ==
  LET ws == db.wordSuggestions[suggestionId]
      id == ws.originalWordId
      updated == [word |-> ws.word, wordClass |-> ws.wordClass,
                  definitions |-> ws.definitions, variations |-> ws.variations,
                  stems |-> ws.stems, examples |-> <<>>]
      db1 == [db EXCEPT !.words = Put(@, id, updated)]
      after == UpdateSuggestionAfterMerge(db1, suggestionId, id, mergedBy, order)
  IN  [db |-> after.db, err |-> after.err, res |-> IF after.err = "" THEN id ELSE Null]

\* mergeIntoWord(suggestionDoc, mergedBy)
MergeIntoWord(db, suggestionId, mergedBy, order) ==
  LET ws == db.wordSuggestions[suggestionId]
      id == ws.originalWordId
  IN  IF ~Exists(db.words, id)
      THEN [db |-> db, err |-> "Word doesn't exist", res |-> Null]
      ELSE LET updated == [db.words[id] EXCEPT
                              !.word = ws.word, !.wordClass = ws.wordClass,
                              !.definitions = ws.definitions,
                              !.variations = ws.variations, !.stems = ws.stems]
               db1 == [db EXCEPT !.words = Put(@, id, updated)]
               after == UpdateSuggestionAfterMerge(db1, suggestionId, id, mergedBy, order)
           IN  [db |-> after.db, err |-> after.err,
                res |-> IF after.err = "" THEN id ELSE Null]

\* mutant: the catch of the create branch rethrows the original error
CreateWordFromSuggestion_KeepsCause(db, suggestionId, mergedBy, order) ==
  LET created == CreateWord(db, db.wordSuggestions[suggestionId])
      after == UpdateSuggestionAfterMerge(created.db, suggestionId, created.res,
                                          mergedBy, order)
  IN  [db |-> after.db, err |-> after.err,
       res |-> IF after.err = "" THEN created.res ELSE Null]

\* createWordFromSuggestion(suggestionDoc, mergedBy)
CreateWordFromSuggestion(db, suggestionId, mergedBy, order) ==
  LET created == CreateWord(db, db.wordSuggestions[suggestionId])
      after == UpdateSuggestionAfterMerge(created.db, suggestionId, created.res,
                                          mergedBy, order)
  IN  IF after.err = ""
      THEN [db |-> after.db, err |-> "", res |-> created.res]
      ELSE [db |-> after.db, err |-> "An error occurred while saving the new word.",
            res |-> Null]

\* the body of mergeWord up to the notification
ExecuteMergeWord(db, suggestionId, mergedBy, order) ==
  IF db.wordSuggestions[suggestionId].originalWordId # Null
  THEN MergeIntoWord(db, suggestionId, mergedBy, order)
  ELSE CreateWordFromSuggestion(db, suggestionId, mergedBy, order)

\* replaceWordIdsFromExampleAssociatedWords(examples, oldId, newId)
ReplaceWordIdsFromExampleAssociatedWords(db, exampleIds, oldId, newId) ==
  [db EXCEPT !.examples =
     [e \in DOMAIN @ |->
        IF e \in exampleIds
        THEN [@[e] EXCEPT !.associatedWords = RelinkAssociatedWords(@, oldId, newId)]
        ELSE @[e]]]

\* deleteWordSuggestionsByOriginalWordId(id)
DeleteWordSuggestionsByOriginalWordId(db, id) ==
  [db EXCEPT !.wordSuggestions =
     Remove(@, {s \in DOMAIN @ : @[s].originalWordId = id})]

\* document.save() of a loaded document: the write fails when the stored
\* document is gone
SaveWord(db, id, doc) ==
  IF Exists(db.words, id)
  THEN [db |-> [db EXCEPT !.words = Put(@, id, doc)], err |-> ""]
  ELSE [db |-> db, err |-> "No matching document found"]

\* mutant: the Word and its suggestions are deleted before the primary Word
\* is looked up
ExecuteDeleteWord_DeletesFirst(db, toBeDeletedWordId, primaryWordId) ==
  LET db1 == DeleteWordSuggestionsByOriginalWordId(
               [db EXCEPT !.words = Remove(@, {toBeDeletedWordId})], toBeDeletedWordId)
      Fail(msg) == [db |-> db1, err |-> msg, res |-> Null]
  IN  IF ~IsValidObjectId(toBeDeletedWordId) \/ ~Exists(db.words, toBeDeletedWordId)
      THEN [db |-> db, err |-> "Cannot destructure property of null", res |-> Null]
      ELSE IF ~IsValidObjectId(primaryWordId)
      THEN Fail(IF primaryWordId = Null THEN "No word id provided"
                ELSE "Invalid word id provided")
      ELSE IF ~Exists(db1.words, primaryWordId)
      THEN Fail("Word doesn't exist")
      ELSE LET deleted == db.words[toBeDeletedWordId]
               toBeDeletedWordExamples == FindExampleByAssociatedWordId(db, toBeDeletedWordId)
               combineWord == db.words[primaryWordId]
               updatedWord ==
                 [combineWord EXCEPT
                    !.definitions = Reconcile(@, deleted.definitions),
                    !.variations = Reconcile(@, deleted.variations \o <<deleted.word>>),
                    !.stems = Reconcile(@, deleted.stems)]
               db3 == ReplaceWordIdsFromExampleAssociatedWords(
                        db1, toBeDeletedWordExamples, toBeDeletedWordId, primaryWordId)
               saved == SaveWord(db3, primaryWordId, updatedWord)
           IN  [db |-> saved.db, err |-> saved.err,
                res |-> IF saved.err = "" THEN primaryWordId ELSE Null]

\* the body of deleteWord
ExecuteDeleteWord(db, toBeDeletedWordId, primaryWordId) ==
  LET Fail(msg) == [db |-> db, err |-> msg, res |-> Null]
  IN  IF ~IsValidObjectId(toBeDeletedWordId) \/ ~Exists(db.words, toBeDeletedWordId)
      THEN Fail("Cannot destructure property of null")
      ELSE IF ~IsValidObjectId(primaryWordId)
      THEN Fail(IF primaryWordId = Null THEN "No word id provided"
                ELSE "Invalid word id provided")
      ELSE IF ~Exists(db.words, primaryWordId)
      THEN Fail("Word doesn't exist")
      ELSE LET deleted == db.words[toBeDeletedWordId]
               toBeDeletedWordExamples == FindExampleByAssociatedWordId(db, toBeDeletedWordId)
               combineWord == db.words[primaryWordId]
               updatedWord ==
                 [combineWord EXCEPT
                    !.definitions = Reconcile(@, deleted.definitions),
                    !.variations = Reconcile(@, deleted.variations \o <<deleted.word>>),
                    !.stems = Reconcile(@, deleted.stems)]
               db1 == [db EXCEPT !.words = Remove(@, {toBeDeletedWordId})]
               db2 == DeleteWordSuggestionsByOriginalWordId(db1, toBeDeletedWordId)
               db3 == ReplaceWordIdsFromExampleAssociatedWords(
                        db2, toBeDeletedWordExamples, toBeDeletedWordId, primaryWordId)
               saved == SaveWord(db3, primaryWordId, updatedWord)
           IN  [db |-> saved.db, err |-> saved.err,
                res |-> IF saved.err = "" THEN primaryWordId ELSE Null]

(* ------------------------------ requests ------------------------------- *)
\* the associated-word lists a submitted Example Suggestion may carry
AssociatedWordLists(ids) ==
  {<<>>} \cup {<<a>> : a \in ids} \cup {<<a, a>> : a \in ids} \cup
  {<<a, b>> : a \in ids \cap AllWordSuggestionIds, b \in ids \cap AllWordIds}

\* the Example Suggestions that may be submitted: a proposal of a new example
\* with any of the lists above, an edit of an existing Example, or a
\* suggestion without text
ExampleSuggestionInputs ==
  LET ids == DOMAIN words \cup DOMAIN wordSuggestions
      valid == CHOOSE d \in ExampleData : d.igbo # ""
      empty == CHOOSE d \in ExampleData : d.igbo = "" /\ d.english = ""
      Input(d, a, o) == [igbo |-> d.igbo, english |-> d.english,
                         associatedWords |-> a, originalExampleId |-> o]
  IN  {Input(valid, a, Null) : a \in AssociatedWordLists(ids)} \cup
      {Input(valid, <<a>>, o) : a \in ids, o \in DOMAIN examples \cup {MissingExampleId}} \cup
      {Input(empty, <<a>>, Null) : a \in ids}

\* documents stored before the editors' requests start
Seeds == counts.word + counts.wordSuggestion + counts.exampleSuggestion

Pending == last.op \in {"none", "createWord"} /\ Seeds < MaxSeeds

\* upstream: a Word Suggestion is stored, pending
SubmitWordSuggestion(data, originalWordId) ==
  /\ Pending
  /\ LET id == WordSuggestionId(counts.wordSuggestion + 1)
         doc == [word |-> data.word, wordClass |-> data.wordClass,
                 definitions |-> data.definitions, variations |-> data.variations,
                 stems |-> data.stems, examples |-> data.examples,
                 originalWordId |-> originalWordId, merged |-> Null, mergedBy |-> ""]
     IN  /\ wordSuggestions' = Put(wordSuggestions, id, doc)
         /\ counts' = [counts EXCEPT !.wordSuggestion = @ + 1]
  /\ UNCHANGED <<words, examples, exampleSuggestions, last, pure, procs>>

\* upstream: an Example Suggestion is stored, pending
SubmitExampleSuggestion(data) ==
  /\ Pending
  /\ LET id == ExampleSuggestionId(counts.exampleSuggestion + 1)
         doc == [igbo |-> data.igbo, english |-> data.english,
                 associatedWords |-> data.associatedWords,
                 originalExampleId |-> data.originalExampleId,
                 merged |-> Null, mergedBy |-> ""]
     IN  /\ exampleSuggestions' = Put(exampleSuggestions, id, doc)
         /\ counts' = [counts EXCEPT !.exampleSuggestion = @ + 1]
  /\ UNCHANGED <<words, examples, wordSuggestions, last, pure, procs>>

\* direct call of createWord(data)
CreateWordRequest(data) ==
  LET created == CreateWord(DB, data)
  IN  /\ Pending
      /\ counts.word < MaxWords
      /\ created.db.counts.example <= MaxExamples
      /\ Commit(created.db)
      /\ last' = Request("createWord", created.res, "", FALSE)
      /\ UNCHANGED <<pure, procs>>

\* mergeWord(req, res, next)
MergeWord(suggestionId, mergedBy, order, notifyCase) ==
  /\ Exists(wordSuggestions, suggestionId)
  /\ order \in Orders(NestedExampleSuggestions(DB, suggestionId))
  /\ LET merged == ExecuteMergeWord(DB, suggestionId, mergedBy, order)
     IN  /\ merged.db.counts.word <= MaxWords
         /\ merged.db.counts.example <= MaxExamples
         /\ merged.err # "" => notifyCase = "noAuthor"
         /\ Commit(merged.db)
         /\ last' = Respond("mergeWord", merged, notifyCase)
  /\ UNCHANGED <<pure, procs>>

\* mergeExample(req, res, next)
MergeExample(suggestionId, mergedBy, notifyCase) ==
  /\ LET merged ==
           IF ~Exists(exampleSuggestions, suggestionId)
           THEN [db |-> DB, err |-> "Cannot read property 'id' of null", res |-> Null]
           ELSE ExecuteMergeExample(DB, suggestionId, mergedBy)
     IN  /\ merged.db.counts.example <= MaxExamples
         /\ merged.err # "" => notifyCase = "noAuthor"
         /\ Commit(merged.db)
         /\ last' = Respond("mergeExample", merged, notifyCase)
  /\ UNCHANGED <<pure, procs>>

\* deleteWord(req, res, next)
DeleteWord(toBeDeletedWordId, primaryWordId) ==
  /\ LET deleted == ExecuteDeleteWord(DB, toBeDeletedWordId, primaryWordId)
     IN  /\ Commit(deleted.db)
         /\ last' = Request("deleteWord", deleted.res, deleted.err, FALSE)
  /\ UNCHANGED <<pure, procs>>

Next ==
  \/ \E data \in WordData, o \in {Null, MissingWordId} \cup DOMAIN words :
       SubmitWordSuggestion(data, o)
  \/ \E data \in ExampleSuggestionInputs : SubmitExampleSuggestion(data)
  \/ \E data \in WordData : CreateWordRequest(data)
  \/ \E s \in AllWordSuggestionIds, u \in Users, c \in NotifyCases :
       \E order \in Orders(NestedExampleSuggestions(DB, s)) : MergeWord(s, u, order, c)
  \/ \E s \in AllExampleSuggestionIds, u \in Users, c \in NotifyCases :
       MergeExample(s, u, c)
  \/ \E x \in AllWordIds, y \in AllWordIds \cup {Null, BadId} : DeleteWord(x, y)

Spec == Init /\ [][Next]_vars

(* ------------------------------ pure functions ------------------------- *)
\* the values of the definitions / variations / stems arrays
TextValues == {"food", "eat"}

\* all the sequences over S of length at most n
SeqsUpTo(S, n) == UNION {[1..k -> S] : k \in 0..n}

\* the ids that appear in the associated words of the relinked Examples
RelinkIds == AllWordIds \cup {MissingWordId}

\* inputs: two arrays for the reconciler, or two Examples and an
\* (oldId, newId) pair for the relinker
PureInit ==
  /\ words = <<>>
  /\ wordSuggestions = <<>>
  /\ exampleSuggestions = <<>>
  /\ counts = [word |-> 0, example |-> 0, wordSuggestion |-> 0, exampleSuggestion |-> 0]
  /\ last = NoRequest
  /\ procs = NoProcs
  /\ \/ /\ examples = <<>>
        /\ \E a \in SeqsUpTo(TextValues, MaxLen), b \in SeqsUpTo(TextValues, MaxLen) :
             pure = [fn |-> "reconcile", runs |-> 0, a |-> a, b |-> b, out |-> a, prev |-> a]
     \/ \E l1 \in SeqsUpTo(RelinkIds, MaxLen), l2 \in SeqsUpTo(RelinkIds, MaxLen) :
          /\ examples = [e \in {ExampleId(1), ExampleId(2)} |->
                           [igbo |-> "i", english |-> "e",
                            associatedWords |-> IF e = ExampleId(1) THEN l1 ELSE l2]]
          /\ \E o \in RelinkIds, n \in RelinkIds :
               pure = [fn |-> "relink", runs |-> 0, a |-> <<o, n>>, b |-> examples,
                       out |-> examples, prev |-> examples]

\* out := reconcile(out, b), as deleteWord does for each array of the primary Word
RunReconcile ==
  /\ pure.fn = "reconcile"
  /\ pure.runs < 2
  /\ pure' = [pure EXCEPT !.runs = @ + 1, !.prev = pure.out, !.out = Reconcile(pure.out, pure.b)]
  /\ UNCHANGED <<words, examples, wordSuggestions, exampleSuggestions, counts, last, procs>>

\* replaceWordIdsFromExampleAssociatedWords over all the stored Examples
RunRelink ==
  /\ pure.fn = "relink"
  /\ pure.runs < 2
  /\ LET db == ReplaceWordIdsFromExampleAssociatedWords(DB, DOMAIN examples,
                                                        pure.a[1], pure.a[2])
     IN  /\ examples' = db.examples
         /\ pure' = [pure EXCEPT !.runs = @ + 1, !.prev = pure.out, !.out = db.examples]
  /\ UNCHANGED <<words, wordSuggestions, exampleSuggestions, counts, last, procs>>

PureNext == RunReconcile \/ RunRelink

PureSpec == PureInit /\ [][PureNext]_vars

(* ------------------------------ interleaved requests ------------------- *)
\* Requests in flight at the same time: every storage operation that a
\* handler awaits is one step, and the steps of different requests interleave.
MaxRequests == 2

Slots == 1..MaxRequests

Idle == [op |-> "none", pc |-> "idle", res |-> Null, err |-> "", branches |-> <<>>]

\* a document that the handler has not loaded yet
NotLoaded == [loaded |-> FALSE]

\* the Words stored before the requests arrive; the first has an Example
StoredWordData ==
  << [word |-> "nri", wordClass |-> "n", definitions |-> <<"food">>,
      variations |-> <<>>, stems |-> <<"ri">>,
      examples |-> <<[igbo |-> "Ana m eri nri", english |-> "I am eating food"]>>],
     [word |-> "eri", wordClass |-> "v", definitions |-> <<"eat">>,
      variations |-> <<>>, stems |-> <<"ri">>, examples |-> <<>>],
     [word |-> "ri", wordClass |-> "v", definitions |-> <<"eat">>,
      variations |-> <<>>, stems |-> <<>>, examples |-> <<>>] >>

RECURSIVE CreateWords(_, _)
CreateWords(db, data) ==
  IF data = <<>> THEN db ELSE CreateWords(CreateWord(db, Head(data)).db, Tail(data))

\* the store when the requests arrive: three Words, the Example of the first,
\* a pending Word Suggestion (a new Word, or an edit of the third Word), a
\* pending Example Suggestion for the first Word and two that list the Word
\* Suggestion, the second of them with or without text
StepInit ==
  \E o \in {Null, WordId(3)}, third \in ExampleData :
    LET empty == [words |-> <<>>, examples |-> <<>>, wordSuggestions |-> <<>>,
                  exampleSuggestions |-> <<>>,
                  counts |-> [word |-> 0, example |-> 0, wordSuggestion |-> 0,
                              exampleSuggestion |-> 0]]
        db == CreateWords(empty, StoredWordData)
        s == WordSuggestionId(1)
        ES(igbo, english, a) == [igbo |-> igbo, english |-> english, associatedWords |-> a,
                                 originalExampleId |-> Null, merged |-> Null, mergedBy |-> ""]
    IN  /\ words = db.words
        /\ examples = db.examples
        /\ wordSuggestions =
             Put(<<>>, s, [word |-> "eri", wordClass |-> "v", definitions |-> <<"eat">>,
                           variations |-> <<"nri">>, stems |-> <<"ri">>, examples |-> <<>>,
                           originalWordId |-> o, merged |-> Null, mergedBy |-> ""])
        /\ exampleSuggestions =
             [e \in {ExampleSuggestionId(n) : n \in 1..3} |->
                CASE e = ExampleSuggestionId(1) -> ES("Nri di", "There is food", <<WordId(1)>>)
                  [] e = ExampleSuggestionId(2) -> ES("O na-eri", "He is eating", <<s>>)
                  [] OTHER -> ES(third.igbo, third.english, <<s>>)]
        /\ counts = [db.counts EXCEPT !.wordSuggestion = 1, !.exampleSuggestion = 3]
        /\ last = NoRequest
        /\ pure = NoPure
        /\ procs = [p \in Slots |-> Idle]

\* a request arrives in slot p: the slots are taken in the order of arrival
Arrives(p) == procs[p].pc = "idle" /\ \A q \in 1..(p - 1) : procs[q].pc # "idle"

\* the handler of slot p reports to its caller: res.send(res) or next(err)
Finish(p, res, err) ==
  procs' = [procs EXCEPT ![p].pc = IF err = "" THEN "done" ELSE "failed",
                         ![p].res = res, ![p].err = err]

Goto(p, pc) == procs' = [procs EXCEPT ![p].pc = pc]

\* mutant: the handler does not wait for the parallel branches
PromiseAllResolved_NoJoin(branches) == TRUE

\* await Promise.all(...): every branch has resolved
PromiseAllResolved(branches) == \A e \in DOMAIN branches : branches[e] = "done"

\* document.save() of a loaded Word: the paths that were modified since the
\* load are written; the write fails when the stored document is gone
SaveLoadedWord(db, id, loaded, updated) ==
  IF ~Exists(db.words, id)
  THEN [db |-> db, err |-> "No matching document found"]
  ELSE [db |-> [db EXCEPT !.words[id].definitions =
                            IF updated.definitions # loaded.definitions
                            THEN updated.definitions ELSE @,
                          !.words[id].variations =
                            IF updated.variations # loaded.variations
                            THEN updated.variations ELSE @,
                          !.words[id].stems =
                            IF updated.stems # loaded.stems THEN updated.stems ELSE @],
        err |-> ""]

(* deleteWord, words.js:277-312 *)
\* Word.findById(toBeDeletedWordId) and the destructuring of its result
DeleteWordFindWord(p, x, y) ==
  /\ Arrives(p)
  /\ procs' = [procs EXCEPT ![p] =
       IF Exists(words, x)
       THEN [op |-> "deleteWord", pc |-> "findExamples", x |-> x, y |-> y,
             deleted |-> words[x], docs |-> <<>>, combineWord |-> NotLoaded,
             updatedWord |-> NotLoaded, branches |-> <<>>, res |-> Null, err |-> ""]
       ELSE [op |-> "deleteWord", pc |-> "failed", x |-> x, y |-> y,
             deleted |-> NotLoaded, docs |-> <<>>, combineWord |-> NotLoaded,
             updatedWord |-> NotLoaded, branches |-> <<>>, res |-> Null,
             err |-> "Cannot destructure property of null"]]
  /\ UNCHANGED <<words, examples, wordSuggestions, exampleSuggestions, counts, last, pure>>

\* findExampleByAssociatedWordId(toBeDeletedWordId): the documents as loaded
DeleteWordFindExamples(p) ==
  /\ procs[p].op = "deleteWord"
  /\ procs[p].pc = "findExamples"
  /\ procs' = [procs EXCEPT ![p].pc = "findPrimary",
                            ![p].docs = [e \in FindExampleByAssociatedWordId(DB, procs[p].x)
                                           |-> examples[e]]]
  /\ UNCHANGED <<words, examples, wordSuggestions, exampleSuggestions, counts, last, pure>>

\* findAndUpdateWord(primaryWordId, cb) up to the unions of the callback
DeleteWordFindPrimary(p) ==
  LET y == procs[p].y
      deleted == procs[p].deleted
  IN  /\ procs[p].op = "deleteWord"
      /\ procs[p].pc = "findPrimary"
      /\ IF ~IsValidObjectId(y)
         THEN Finish(p, Null, IF y = Null THEN "No word id provided"
                              ELSE "Invalid word id provided")
         ELSE IF ~Exists(words, y)
         THEN Finish(p, Null, "Word doesn't exist")
         ELSE procs' = [procs EXCEPT
                  ![p].pc = "deleteOne",
                  ![p].combineWord = words[y],
                  ![p].updatedWord =
                     [words[y] EXCEPT
                        !.definitions = Reconcile(@, deleted.definitions),
                        !.variations = Reconcile(@, deleted.variations \o <<deleted.word>>),
                        !.stems = Reconcile(@, deleted.stems)]]
      /\ UNCHANGED <<words, examples, wordSuggestions, exampleSuggestions, counts, last, pure>>

\* Word.deleteOne({_id: toBeDeletedWordId})
DeleteWordDeleteOne(p) ==
  /\ procs[p].op = "deleteWord"
  /\ procs[p].pc = "deleteOne"
  /\ words' = Remove(words, {procs[p].x})
  /\ Goto(p, "deleteSuggestions")
  /\ UNCHANGED <<examples, wordSuggestions, exampleSuggestions, counts, last, pure>>

\* deleteWordSuggestionsByOriginalWordId(toBeDeletedWordId); then the
\* relinker issues one save per loaded Example
DeleteWordDeleteSuggestions(p) ==
  /\ procs[p].op = "deleteWord"
  /\ procs[p].pc = "deleteSuggestions"
  /\ wordSuggestions' = DeleteWordSuggestionsByOriginalWordId(DB, procs[p].x).wordSuggestions
  /\ procs' = [procs EXCEPT ![p].pc = "relink",
                            ![p].branches = [e \in DOMAIN procs[p].docs |-> "save"]]
  /\ UNCHANGED <<words, examples, exampleSuggestions, counts, last, pure>>

\* one branch of replaceWordIdsFromExampleAssociatedWords: the loaded Example
\* is saved with its relinked associatedWords
DeleteWordRelinkSave(p, e) ==
  /\ procs[p].op = "deleteWord"
  /\ procs[p].pc = "relink"
  /\ e \in DOMAIN procs[p].branches
  /\ procs[p].branches[e] = "save"
  /\ examples' = [examples EXCEPT ![e].associatedWords =
                    RelinkAssociatedWords(procs[p].docs[e].associatedWords,
                                          procs[p].x, procs[p].y)]
  /\ procs' = [procs EXCEPT ![p].branches[e] = "done"]
  /\ UNCHANGED <<words, wordSuggestions, exampleSuggestions, counts, last, pure>>

\* updatedWord.save(), then res.send(savedCombinedWord) or next(err)
DeleteWordSave(p) ==
  /\ procs[p].op = "deleteWord"
  /\ procs[p].pc = "relink"
  /\ PromiseAllResolved(procs[p].branches)
  /\ LET saved == SaveLoadedWord(DB, procs[p].y, procs[p].combineWord, procs[p].updatedWord)
     IN  /\ words' = saved.db.words
         /\ Finish(p, IF saved.err = "" THEN procs[p].y ELSE Null, saved.err)
  /\ UNCHANGED <<examples, wordSuggestions, exampleSuggestions, counts, last, pure>>

(* mergeExample, part_000:107-137 and 157-169 *)
\* findExampleSuggestionById and the checks on the loaded suggestion
MergeExampleLoad(p, e, mergedBy) ==
  LET es == exampleSuggestions[e]
      err == IF es.igbo = "" /\ es.english = ""
             THEN "Required information is missing, double check your provided data"
             ELSE IF \E a \in Range(es.associatedWords) : ~IsValidObjectId(a)
             THEN "Invalid id found in associatedWords"
             ELSE ""
  IN  /\ Arrives(p)
      /\ procs' = [procs EXCEPT ![p] =
           [op |-> "mergeExample", pc |-> IF err = "" THEN "findWords" ELSE "failed",
            e |-> e, mergedBy |-> mergedBy, es |-> es, branches |-> <<>>,
            res |-> Null, err |-> err]]
      /\ UNCHANGED <<words, examples, wordSuggestions, exampleSuggestions, counts, last, pure>>

\* Word.findById of every associated word, then the duplicate test
MergeExampleFindWords(p) ==
  LET es == procs[p].es
  IN  /\ procs[p].op = "mergeExample"
      /\ procs[p].pc = "findWords"
      /\ IF \E a \in Range(es.associatedWords) : ~Exists(words, a)
         THEN Finish(p, Null, "Example suggestion associated words can only contain Word ids before merging")
         ELSE IF HasDuplicateAssociatedWords(es.associatedWords)
         THEN Finish(p, Null, "Duplicates are not allows in associated words")
         ELSE Goto(p, "write")
      /\ UNCHANGED <<words, examples, wordSuggestions, exampleSuggestions, counts, last, pure>>

\* Example.findOneAndUpdate or createExample, with the loaded suggestion
MergeExampleWrite(p) ==
  LET es == procs[p].es
      doc == [igbo |-> es.igbo, english |-> es.english,
              associatedWords |-> es.associatedWords]
      made == CreateExample(DB, es)
  IN  /\ procs[p].op = "mergeExample"
      /\ procs[p].pc = "write"
      /\ IF es.originalExampleId = Null
         THEN /\ examples' = made.db.examples
              /\ counts' = made.db.counts
              /\ procs' = [procs EXCEPT ![p].pc = "stamp", ![p].res = made.id]
         ELSE IF Exists(examples, es.originalExampleId)
         THEN /\ examples' = Put(examples, es.originalExampleId, doc)
              /\ counts' = counts
              /\ procs' = [procs EXCEPT ![p].pc = "stamp", ![p].res = es.originalExampleId]
         ELSE /\ UNCHANGED <<examples, counts>>
              /\ Finish(p, Null, "Example doesn't exist")
      /\ UNCHANGED <<words, wordSuggestions, exampleSuggestions, last, pure>>

\* updateDocumentMerge(exampleSuggestion, example.id, mergedBy), then
\* res.send(result)
MergeExampleStamp(p) ==
  /\ procs[p].op = "mergeExample"
  /\ procs[p].pc = "stamp"
  /\ exampleSuggestions' =
       StampExampleSuggestion(DB, procs[p].e, procs[p].res, procs[p].mergedBy).exampleSuggestions
  /\ Finish(p, procs[p].res, "")
  /\ UNCHANGED <<words, examples, wordSuggestions, counts, last, pure>>

(* mergeWord, words.js:149-226 *)
\* the error as the branch of mergeWord rethrows it
Rethrown(ws, err) ==
  IF ws.originalWordId = Null THEN "An error occurred while saving the new word." ELSE err

\* createWord(suggestionDoc.toObject()) or Word.findOneAndUpdate
MergeWordMerge(p, s, mergedBy) ==
  LET ws == wordSuggestions[s]
      created == CreateWord(DB, ws)
      Started(pc, w, err) ==
        [op |-> "mergeWord", pc |-> pc, s |-> s, mergedBy |-> mergedBy, ws |-> ws,
         w |-> w, docs |-> <<>>, branches |-> <<>>, res |-> Null, err |-> err]
  IN  /\ Arrives(p)
      /\ IF ws.originalWordId = Null
         THEN /\ words' = created.db.words
              /\ examples' = created.db.examples
              /\ counts' = created.db.counts
              /\ procs' = [procs EXCEPT ![p] = Started("stamp", created.res, "")]
         ELSE IF Exists(words, ws.originalWordId)
         THEN /\ words' = [words EXCEPT ![ws.originalWordId] =
                             [@ EXCEPT !.word = ws.word, !.wordClass = ws.wordClass,
                                       !.definitions = ws.definitions,
                                       !.variations = ws.variations, !.stems = ws.stems]]
              /\ UNCHANGED <<examples, counts>>
              /\ procs' = [procs EXCEPT ![p] = Started("stamp", ws.originalWordId, "")]
         ELSE /\ UNCHANGED <<words, examples, counts>>
              /\ procs' = [procs EXCEPT ![p] = Started("failed", Null, "Word doesn't exist")]
      /\ UNCHANGED <<wordSuggestions, exampleSuggestions, last, pure>>

\* updateDocumentMerge(suggestionDoc, originalWordDoc.id, mergedBy)
MergeWordStamp(p) ==
  /\ procs[p].op = "mergeWord"
  /\ procs[p].pc = "stamp"
  /\ IF Exists(wordSuggestions, procs[p].s)
     THEN /\ wordSuggestions' =
               StampWordSuggestion(DB, procs[p].s, procs[p].w, procs[p].mergedBy).wordSuggestions
          /\ Goto(p, "find")
     ELSE /\ UNCHANGED wordSuggestions
          /\ Finish(p, Null, Rethrown(procs[p].ws, "No matching document found"))
  /\ UNCHANGED <<words, examples, exampleSuggestions, counts, last, pure>>

\* ExampleSuggestion.find({associatedWords: suggestionDoc.id}); one branch of
\* the Promise.all is issued per document found
MergeWordFind(p) ==
  /\ procs[p].op = "mergeWord"
  /\ procs[p].pc = "find"
  /\ procs' = [procs EXCEPT
       ![p].pc = "cascade",
       ![p].docs = [e \in NestedExampleSuggestions(DB, procs[p].s) |-> exampleSuggestions[e]],
       ![p].branches = [e \in NestedExampleSuggestions(DB, procs[p].s) |-> "save"]]
  /\ UNCHANGED <<words, examples, wordSuggestions, exampleSuggestions, counts, last, pure>>

\* a branch of the cascade saves its Example Suggestion without the Word
\* Suggestion's id and with the Word's id
MergeWordBranchSave(p, e) ==
  LET removed == SelectSeq(procs[p].docs[e].associatedWords, LAMBDA a : a # procs[p].s)
      associatedWords == IF Includes(removed, procs[p].w) THEN removed
                         ELSE Append(removed, procs[p].w)
  IN  /\ procs[p].op = "mergeWord"
      /\ procs[p].pc \in {"cascade", "failed"}
      /\ e \in DOMAIN procs[p].branches
      /\ procs[p].branches[e] = "save"
      /\ exampleSuggestions' = [exampleSuggestions EXCEPT ![e].associatedWords = associatedWords]
      /\ procs' = [procs EXCEPT ![p].branches[e] = "merge"]
      /\ UNCHANGED <<words, examples, wordSuggestions, counts, last, pure>>

\* a branch of the cascade runs executeMergeExample; the first branch that
\* throws rejects the Promise.all, and the handler calls next(err)
MergeWordBranchMerge(p, e) ==
  LET merged == ExecuteMergeExample(DB, e, procs[p].mergedBy)
  IN  /\ procs[p].op = "mergeWord"
      /\ procs[p].pc \in {"cascade", "failed"}
      /\ e \in DOMAIN procs[p].branches
      /\ procs[p].branches[e] = "merge"
      /\ Commit(merged.db)
      /\ procs' = [procs EXCEPT
           ![p].branches[e] = IF merged.err = "" THEN "done" ELSE "failed",
           ![p].pc = IF merged.err # "" THEN "failed" ELSE @,
           ![p].err = IF merged.err # "" /\ procs[p].pc = "cascade"
                      THEN Rethrown(procs[p].ws, merged.err) ELSE @]
      /\ UNCHANGED <<last, pure>>

\* return updatedSuggestionDoc.save(), then res.send(result)
MergeWordFinalSave(p) ==
  /\ procs[p].op = "mergeWord"
  /\ procs[p].pc = "cascade"
  /\ PromiseAllResolved(procs[p].branches)
  /\ Finish(p, procs[p].w, "")
  /\ UNCHANGED <<words, examples, wordSuggestions, exampleSuggestions, counts, last, pure>>

StepNext ==
  \E p \in Slots :
    \/ \E x \in DOMAIN words, y \in DOMAIN words : DeleteWordFindWord(p, x, y)
    \/ DeleteWordFindExamples(p)
    \/ DeleteWordFindPrimary(p)
    \/ DeleteWordDeleteOne(p)
    \/ DeleteWordDeleteSuggestions(p)
    \/ \E e \in DOMAIN examples : DeleteWordRelinkSave(p, e)
    \/ DeleteWordSave(p)
    \/ \E e \in DOMAIN exampleSuggestions, u \in Users : MergeExampleLoad(p, e, u)
    \/ MergeExampleFindWords(p)
    \/ MergeExampleWrite(p)
    \/ MergeExampleStamp(p)
    \/ \E s \in DOMAIN wordSuggestions, u \in Users : MergeWordMerge(p, s, u)
    \/ MergeWordStamp(p)
    \/ MergeWordFind(p)
    \/ \E e \in DOMAIN exampleSuggestions : MergeWordBranchSave(p, e)
    \/ \E e \in DOMAIN exampleSuggestions : MergeWordBranchMerge(p, e)
    \/ MergeWordFinalSave(p)

StepSpec == StepInit /\ [][StepNext]_vars

(* ------------------------------ properties ----------------------------- *)
\* the step is mergeWord(s), and the caller got the result
MergeWordSucceeds(s) ==
  /\ last'.op = "mergeWord"
  /\ last'.err = ""
  /\ \E u \in Users, c \in NotifyCases :
       \E order \in Orders(NestedExampleSuggestions(DB, s)) : MergeWord(s, u, order, c)

\* the step is mergeExample(s), and the caller got the result
MergeExampleSucceeds(s) ==
  /\ last'.op = "mergeExample"
  /\ last'.err = ""
  /\ \E u \in Users, c \in NotifyCases : MergeExample(s, u, c)

\* the step is deleteWord(x, y), and the caller got the result
DeleteWordSucceeds(x, y) ==
  /\ last'.op = "deleteWord"
  /\ last'.err = ""
  /\ DeleteWord(x, y)

SameWordFields(w, ws) ==
  /\ w.word = ws.word
  /\ w.wordClass = ws.wordClass
  /\ w.definitions = ws.definitions
  /\ w.variations = ws.variations
  /\ w.stems = ws.stems

\* C1: a successful mergeWord on a suggestion without originalWordId adds
\* exactly one Word, under an id never handed out before, and leaves every
\* pre-existing Word unchanged; on a suggestion whose originalWordId names an
\* existing Word it overwrites the fields of that Word with the suggestion's,
\* creates no Word and changes no other Word.
C1_BranchSelection ==
  [][\A s \in AllWordSuggestionIds :
       MergeWordSucceeds(s) =>
         LET ws == wordSuggestions[s] IN
         IF ws.originalWordId = Null
         THEN /\ DOMAIN words' = DOMAIN words \cup {last'.res}
              /\ last'.res \notin DOMAIN words
              /\ last'.res[2] > counts.word
              /\ SameWordFields(words'[last'.res], ws)
              /\ \A w \in DOMAIN words : words'[w] = words[w]
         ELSE /\ DOMAIN words' = DOMAIN words
              /\ last'.res = ws.originalWordId
              /\ ws.originalWordId \in DOMAIN words
              /\ SameWordFields(words'[ws.originalWordId], ws)
              /\ \A w \in DOMAIN words \ {ws.originalWordId} : words'[w] = words[w]]_vars

\* C1 witness: one suggestion was merged into a new Word and another into
\* the existing Word it names, whose fields it changed
C1_Witness ==
  /\ last.op = "mergeWord"
  /\ last.err = ""
  /\ \E s1, s2 \in DOMAIN wordSuggestions :
       /\ wordSuggestions[s1].originalWordId = Null
       /\ wordSuggestions[s1].merged \in DOMAIN words
       /\ wordSuggestions[s2].originalWordId # Null
       /\ wordSuggestions[s2].merged = wordSuggestions[s2].originalWordId
       /\ wordSuggestions[s2].merged = last.res
       /\ SameWordFields(words[last.res], wordSuggestions[s2])
       /\ Cardinality(DOMAIN words) = 2

\* C2: after a successful mergeWord(S) with canonical Word W, every Example
\* Suggestion that listed S is stamped with an existing canonical Example, and
\* both its associated words and the Example's contain W and not S.
C2_CascadeCompleteness ==
  [][\A s \in AllWordSuggestionIds :
       MergeWordSucceeds(s) =>
         \A e \in NestedExampleSuggestions(DB, s) :
           LET es == exampleSuggestions'[e] IN
           /\ es.merged \in DOMAIN examples'
           /\ es.mergedBy \in Users
           /\ Includes(es.associatedWords, last'.res)
           /\ ~Includes(es.associatedWords, s)
           /\ Includes(examples'[es.merged].associatedWords, last'.res)
           /\ ~Includes(examples'[es.merged].associatedWords, s)]_vars

\* C2 witness: a mergeWord has merged two nested Example Suggestions into two
\* canonical Examples of the resulting Word
C2_Witness ==
  /\ last.op = "mergeWord"
  /\ last.err = ""
  /\ \E s \in DOMAIN wordSuggestions, e1, e2 \in DOMAIN exampleSuggestions :
       /\ e1 # e2
       /\ wordSuggestions[s].merged = last.res
       /\ \A e \in {e1, e2} :
            /\ exampleSuggestions[e].merged \in DOMAIN examples
            /\ Includes(exampleSuggestions[e].associatedWords, last.res)
            /\ Includes(examples[exampleSuggestions[e].merged].associatedWords, last.res)
       /\ exampleSuggestions[e1].merged # exampleSuggestions[e2].merged

SubsetOfValues(a, b) == Range(a) \subseteq Range(b)

\* C3: after a successful deleteWord(X, Y), X is gone, Y's variations contain
\* X's headword and Y's arrays contain every value of X's, no Example lists
\* X, and every Example that listed X lists Y.
C3_DeletionConsolidation ==
  [][\A x \in AllWordIds, y \in AllWordIds :
       DeleteWordSucceeds(x, y) =>
         /\ x \notin DOMAIN words'
         /\ y \in DOMAIN words'
         /\ Includes(words'[y].variations, words[x].word)
         /\ SubsetOfValues(words[x].definitions, words'[y].definitions)
         /\ SubsetOfValues(words[x].variations, words'[y].variations)
         /\ SubsetOfValues(words[x].stems, words'[y].stems)
         /\ \A e \in DOMAIN examples' : ~Includes(examples'[e].associatedWords, x)
         /\ \A e \in DOMAIN examples :
              Includes(examples[e].associatedWords, x) =>
                Includes(examples'[e].associatedWords, y)]_vars

\* C3 witness: a deleteWord has folded a Word into the primary Word, whose
\* variations now hold two headwords, and an Example lists the primary Word
C3_Witness ==
  /\ last.op = "deleteWord"
  /\ last.err = ""
  /\ DOMAIN words = {last.res}
  /\ counts.word = 2
  /\ Includes(words[last.res].variations, "eri")
  /\ words[last.res].word = "nri"
  /\ \E e \in DOMAIN examples : examples[e].associatedWords = <<last.res>>
                                /\ last.res = WordId(2)

\* C4: after every successful mergeWord or deleteWord the resulting Word's
\* definitions, variations and stems hold no value twice, and after every
\* successful mergeExample the resulting Example's associated words hold no
\* id twice.
C4_NoDuplicateValues ==
  /\ (last.op \in {"mergeWord", "deleteWord"} /\ last.err = "") =>
       /\ NoDuplicates(words[last.res].definitions)
       /\ NoDuplicates(words[last.res].variations)
       /\ NoDuplicates(words[last.res].stems)
  /\ (last.op = "mergeExample" /\ last.err = "") =>
       NoDuplicates(examples[last.res].associatedWords)

\* the step is mergeExample(s) on a stored Example Suggestion
MergeExampleRuns(s) ==
  /\ last'.op = "mergeExample"
  /\ s \in DOMAIN exampleSuggestions
  /\ \E u \in Users, c \in NotifyCases : MergeExample(s, u, c)

\* the suggestion has text, lists Words only, and lists one of them twice
ListsWordTwice(es) ==
  /\ es.igbo # "" \/ es.english # ""
  /\ \A a \in Range(es.associatedWords) : a \in DOMAIN words
  /\ ~NoDuplicates(es.associatedWords)

\* C5: mergeExample on a suggestion without Igbo and English text fails with
\* the validation error and writes nothing; on a suggestion that lists the
\* same Word id twice it fails with the duplicate error and leaves the
\* canonical Examples as they are.
C5_ValidationRejection ==
  [][\A s \in AllExampleSuggestionIds :
       MergeExampleRuns(s) =>
         LET es == exampleSuggestions[s] IN
         /\ (es.igbo = "" /\ es.english = "") =>
              /\ last'.err = "Required information is missing, double check your provided data"
              /\ examples' = examples
              /\ exampleSuggestions' = exampleSuggestions
         /\ ListsWordTwice(es) =>
              /\ last'.err = "Duplicates are not allows in associated words"
              /\ examples' = examples]_vars

\* C6: a successful mergeWord on a suggestion without originalWordId that
\* carries N examples yields a Word with exactly N distinct Example ids and
\* creates exactly N canonical Examples, each associated with the new Word
\* alone.
C6_OneExamplePerEmbeddedExample ==
  [][\A s \in AllWordSuggestionIds :
       (MergeWordSucceeds(s) /\ wordSuggestions[s].originalWordId = Null) =>
         LET n == Len(wordSuggestions[s].examples)
             created == DOMAIN examples' \ DOMAIN examples
         IN  /\ Len(words'[last'.res].examples) = n
             /\ NoDuplicates(words'[last'.res].examples)
             /\ Cardinality(created) = n
             /\ \A e \in created : examples'[e].associatedWords = <<last'.res>>]_vars

\* C7: reconcile(reconcile(A, B), B) = reconcile(A, B): the second run of the
\* union with B changes nothing.
C7_IdempotentReconciliation ==
  (pure.fn = "reconcile" /\ pure.runs = 2) => pure.out = pure.prev

\* C7 witness: two runs over arrays that share a value, where B also holds
\* a value that A lacks and the first run added it
C7_Witness ==
  /\ pure.fn = "reconcile"
  /\ pure.runs = 2
  /\ Range(pure.a) \cap Range(pure.b) # {}
  /\ Range(pure.b) \ Range(pure.a) # {}
  /\ pure.out # pure.a
  /\ Len(pure.out) = 2

\* the relinker's postcondition for one Example, the part about newId aside
RelinkedWithout(before, after, oldId, newId) ==
  /\ ~Includes(after, oldId)
  /\ NoDuplicates(after)
  /\ \A id \in RelinkIds \ {oldId, newId} : Includes(after, id) <=> Includes(before, id)

\* C8 as stated: after the relinker every Example's associated words contain
\* newId, do not contain oldId, hold no id twice and keep every other id; a
\* second run changes nothing.
C8_RelinkerAsStated ==
  (pure.fn = "relink" /\ pure.runs >= 1) =>
    /\ \A e \in DOMAIN examples :
         /\ Includes(examples[e].associatedWords, pure.a[2])
         /\ RelinkedWithout(pure.b[e].associatedWords, examples[e].associatedWords,
                            pure.a[1], pure.a[2])
    /\ pure.runs = 2 => pure.out = pure.prev

\* C8 amended: as stated, except that the associated words contain newId
\* only when newId differs from oldId (with newId = oldId they contain
\* neither).
C8_Relinker ==
  (pure.fn = "relink" /\ pure.runs >= 1) =>
    /\ \A e \in DOMAIN examples :
         /\ pure.a[1] # pure.a[2] => Includes(examples[e].associatedWords, pure.a[2])
         /\ RelinkedWithout(pure.b[e].associatedWords, examples[e].associatedWords,
                            pure.a[1], pure.a[2])
    /\ pure.runs = 2 => pure.out = pure.prev

\* C8 witness: the relinker ran twice with oldId # newId over an Example that
\* listed oldId and another id, and one that listed newId already
C8_Witness ==
  /\ pure.fn = "relink"
  /\ pure.runs = 2
  /\ pure.a[1] # pure.a[2]
  /\ \E e \in DOMAIN examples :
       /\ Includes(pure.b[e].associatedWords, pure.a[1])
       /\ \E id \in RelinkIds \ {pure.a[1], pure.a[2]} : Includes(pure.b[e].associatedWords, id)
       /\ Len(examples[e].associatedWords) = 2
  /\ \E e \in DOMAIN examples : Includes(pure.b[e].associatedWords, pure.a[2])

\* C9: the notification never changes the outcome of a merge: when the merge
\* itself succeeded the caller gets its result whatever the user lookup and
\* the sender do, nothing is sent when there is no author or no address, and
\* sendMergedEmail is called only once the canonical record and the stamp
\* are stored.
C9_NotificationBestEffort ==
  [][/\ \A s \in AllWordSuggestionIds, u \in Users, c \in NotifyCases :
          \A order \in Orders(NestedExampleSuggestions(DB, s)) :
            (last'.op = "mergeWord" /\ MergeWord(s, u, order, c)) =>
              LET merged == ExecuteMergeWord(DB, s, u, order) IN
              /\ merged.err = "" => (last'.err = "" /\ last'.res = merged.res)
              /\ c \in {"noAuthor", "noEmail"} => ~last'.sent
              /\ last'.sent => /\ merged.res \in DOMAIN words'
                               /\ wordSuggestions'[s].merged = merged.res
     /\ \A s \in DOMAIN exampleSuggestions, u \in Users, c \in NotifyCases :
          (last'.op = "mergeExample" /\ MergeExample(s, u, c)) =>
            LET merged == ExecuteMergeExample(DB, s, u) IN
            /\ merged.err = "" => (last'.err = "" /\ last'.res = merged.res)
            /\ c \in {"noAuthor", "noEmail"} => ~last'.sent
            /\ last'.sent => /\ merged.res \in DOMAIN examples'
                             /\ exampleSuggestions'[s].merged = merged.res]_vars

\* C10: every canonical Example has at least one associated word, after any
\* sequence of mergeWord, mergeExample and deleteWord.
C10_NonEmptyAssociation ==
  \A e \in DOMAIN examples : examples[e].associatedWords # <<>>

\* the step is mergeWord(s) on a stored Word Suggestion
MergeWordRuns(s) ==
  /\ last'.op = "mergeWord"
  /\ s \in DOMAIN wordSuggestions
  /\ \E u \in Users, c \in NotifyCases :
       \E order \in Orders(NestedExampleSuggestions(DB, s)) : MergeWord(s, u, order, c)

\* C12: in every state reached by mergeWord, mergeExample and deleteWord
\* requests run one at a time, every id in every Example's associated words
\* is the id of a stored Word.
C12_NoDanglingReferences ==
  \A e \in DOMAIN examples :
    \A a \in Range(examples[e].associatedWords) : a \in DOMAIN words

\* C12 witness: a Word was deleted, an Example that listed it lists the
\* primary Word, and a later mergeExample on a suggestion that still lists
\* the deleted Word was refused
C12_Witness ==
  /\ last.op = "mergeExample"
  /\ last.err = "Example suggestion associated words can only contain Word ids before merging"
  /\ counts.word = 2
  /\ DOMAIN words = {WordId(2)}
  /\ \E e \in DOMAIN examples : examples[e].associatedWords = <<WordId(2)>>
  /\ \E e \in DOMAIN exampleSuggestions :
       /\ exampleSuggestions[e].associatedWords = <<WordId(1)>>
       /\ exampleSuggestions[e].merged = Null
       /\ exampleSuggestions[e].igbo # ""

\* the messages with which executeMergeExample fails
NestedMergeErrors ==
  { "There is no associated example suggestion, double check your provided data",
    "Required information is missing, double check your provided data",
    "Invalid id found in associatedWords",
    "Example suggestion associated words can only contain Word ids before merging",
    "Duplicates are not allows in associated words",
    "Example doesn't exist",
    "An error occurred while saving the new example." }

\* C16: a mergeWord whose branch fails reports, in the create branch, the
\* generic message whatever the cause; in the update branch "Word doesn't
\* exist" when the original Word is missing, and the message of the failing
\* nested merge when the cascade fails.
C16_ErrorMasking ==
  [][\A s \in AllWordSuggestionIds :
       (MergeWordRuns(s) /\ last'.err # "" /\ ~last'.sent
          /\ \E u \in Users : \E order \in Orders(NestedExampleSuggestions(DB, s)) :
               ExecuteMergeWord(DB, s, u, order).err # "") =>
         LET ws == wordSuggestions[s] IN
         IF ws.originalWordId = Null
         THEN last'.err = "An error occurred while saving the new word."
         ELSE IF ws.originalWordId \notin DOMAIN words
         THEN last'.err = "Word doesn't exist"
         ELSE last'.err \in NestedMergeErrors]_vars

\* C16 witness: a create-branch mergeWord reported the generic failure after
\* the Word was saved, because a nested Example Suggestion without text
\* failed its validation
C16_Witness ==
  /\ last.op = "mergeWord"
  /\ last.err = "An error occurred while saving the new word."
  /\ \E s \in DOMAIN wordSuggestions, e \in DOMAIN exampleSuggestions :
       /\ wordSuggestions[s].originalWordId = Null
       /\ wordSuggestions[s].merged \in DOMAIN words
       /\ exampleSuggestions[e].igbo = ""
       /\ exampleSuggestions[e].merged = Null
       /\ exampleSuggestions[e].associatedWords = <<wordSuggestions[s].merged>>

\* C17: no mergeWord (a retry after a failed cascade included) merges again
\* an Example Suggestion that is already merged: such a suggestion is not
\* among the nested suggestions, it keeps its stamp, and every Example the
\* step creates is an embedded example of the Word or the Example of a
\* suggestion that was pending before the step.
C17_RetrySkipsMergedNested ==
  [][\A s \in AllWordSuggestionIds :
       MergeWordRuns(s) =>
         /\ \A e \in DOMAIN exampleSuggestions :
              exampleSuggestions[e].merged # Null =>
                /\ e \notin NestedExampleSuggestions(DB, s)
                /\ exampleSuggestions'[e] = exampleSuggestions[e]
                /\ exampleSuggestions[e].merged \in DOMAIN examples'
         /\ \A x \in DOMAIN examples' \ DOMAIN examples :
              \/ \E w \in DOMAIN words' \ DOMAIN words : Includes(words'[w].examples, x)
              \/ \E e \in DOMAIN exampleSuggestions :
                   /\ exampleSuggestions[e].merged = Null
                   /\ exampleSuggestions'[e].merged = x]_vars

\* C17 witness: the first mergeWord on a suggestion created Word 1, merged
\* one nested Example Suggestion and failed on another; the retry created
\* Word 2 and succeeded, and the merged suggestion still names its one Example
C17_Witness ==
  /\ last.op = "mergeWord"
  /\ last.err = ""
  /\ last.res = WordId(2)
  /\ \E s \in DOMAIN wordSuggestions, e1, e2 \in DOMAIN exampleSuggestions :
       /\ wordSuggestions[s].originalWordId = Null
       /\ wordSuggestions[s].merged = WordId(2)
       /\ DOMAIN wordSuggestions = {s}
       /\ exampleSuggestions[e1].merged \in DOMAIN examples
       /\ exampleSuggestions[e1].associatedWords = <<WordId(1)>>
       /\ examples[exampleSuggestions[e1].merged].associatedWords = <<WordId(1)>>
       /\ exampleSuggestions[e2].merged = Null
       /\ exampleSuggestions[e2].associatedWords = <<WordId(1)>>
       /\ exampleSuggestions[e2].igbo = ""

\* the suggestion passes the checks that precede the branch of
\* executeMergeExample
ReachesMergeBranch(es) ==
  /\ es.igbo # "" \/ es.english # ""
  /\ \A a \in Range(es.associatedWords) : a \in DOMAIN words

\* C18: mergeExample on a suggestion whose originalExampleId names no Example
\* fails with "Example doesn't exist", mergeWord on a suggestion whose
\* originalWordId names no Word fails with "Word doesn't exist", and in both
\* cases the four collections are left as they were.
C18_MissingOriginalChangesNothing ==
  [][/\ \A s \in AllExampleSuggestionIds :
          (MergeExampleRuns(s)
             /\ exampleSuggestions[s].originalExampleId # Null
             /\ exampleSuggestions[s].originalExampleId \notin DOMAIN examples) =>
            /\ ReachesMergeBranch(exampleSuggestions[s]) =>
                 last'.err = "Example doesn't exist"
            /\ last'.err # ""
            /\ UNCHANGED <<words, examples, wordSuggestions, exampleSuggestions>>
     /\ \A s \in AllWordSuggestionIds :
          (MergeWordRuns(s)
             /\ wordSuggestions[s].originalWordId # Null
             /\ wordSuggestions[s].originalWordId \notin DOMAIN words) =>
            /\ last'.err = "Word doesn't exist"
            /\ UNCHANGED <<words, examples, wordSuggestions, exampleSuggestions>>]_vars

\* C18 witness: mergeWord failed on a suggestion that names a missing Word
\* and that a pending Example Suggestion lists
C18_Witness ==
  /\ last.op = "mergeWord"
  /\ last.err = "Word doesn't exist"
  /\ \E s \in DOMAIN wordSuggestions, e \in DOMAIN exampleSuggestions :
       /\ wordSuggestions[s].originalWordId = MissingWordId
       /\ wordSuggestions[s].merged = Null
       /\ Includes(exampleSuggestions[e].associatedWords, s)
       /\ exampleSuggestions[e].merged = Null
       /\ exampleSuggestions[e].igbo # ""

\* C19: deleteWord with a primaryWordId that is missing, malformed or names
\* no Word, or on a Word that does not exist, fails and leaves the four
\* collections as they were.
C19_DeleteValidatesFirst ==
  [][\A x \in AllWordIds, y \in AllWordIds \cup {Null, BadId} :
       (last'.op = "deleteWord" /\ DeleteWord(x, y)
          /\ (x \notin DOMAIN words \/ y \notin DOMAIN words)) =>
         /\ last'.err # ""
         /\ last'.res = Null
         /\ x \in DOMAIN words =>
              last'.err = CASE y = Null -> "No word id provided"
                            [] y = BadId -> "Invalid word id provided"
                            [] OTHER -> "Word doesn't exist"
         /\ UNCHANGED <<words, examples, wordSuggestions, exampleSuggestions>>]_vars

\* C19 witness: deleteWord failed on a primary Word that does not exist
\* while the only Word has an Example and a suggestion that edits it
C19_Witness ==
  /\ last.op = "deleteWord"
  /\ last.err = "Word doesn't exist"
  /\ counts.word = 1
  /\ DOMAIN words = {WordId(1)}
  /\ \E e \in DOMAIN examples : examples[e].associatedWords = <<WordId(1)>>
  /\ \E s \in DOMAIN wordSuggestions : wordSuggestions[s].originalWordId = WordId(1)

\* C20: every merge stamp names a stored record: a stamped Word Suggestion a
\* stored Word, a stamped Example Suggestion a stored Example.
C20_StampsNameStoredRecords ==
  /\ \A s \in DOMAIN wordSuggestions :
       wordSuggestions[s].merged # Null => wordSuggestions[s].merged \in DOMAIN words
  /\ \A e \in DOMAIN exampleSuggestions :
       exampleSuggestions[e].merged # Null => exampleSuggestions[e].merged \in DOMAIN examples

\* C11: while the cascade of a mergeWord is under way, and after it has
\* failed, the stored Word Suggestion is still unmerged, and the nested
\* Example Suggestions whose branch has finished are stamped.
C11_OuterStampLast ==
  \A p \in DOMAIN procs :
    (/\ procs[p].op = "mergeWord"
     /\ \/ procs[p].pc \in {"find", "cascade"}
        \/ procs[p].pc = "failed" /\ DOMAIN procs[p].branches # {}
     /\ procs[p].s \in DOMAIN wordSuggestions) =>
      /\ wordSuggestions[procs[p].s].merged = Null
      /\ \A e \in DOMAIN procs[p].branches :
           procs[p].branches[e] = "done" => exampleSuggestions[e].merged \in DOMAIN examples

\* C13: once deleteWord(X, Y) has succeeded and a mergeExample on a
\* suggestion that lists X has finished, whatever the interleaving of their
\* steps, no Example lists X.
C13_RelinkCoversFinalSet ==
  \A p, q \in DOMAIN procs :
    (/\ procs[p].op = "deleteWord"
     /\ procs[p].pc = "done"
     /\ procs[q].op = "mergeExample"
     /\ procs[q].pc \in {"done", "failed"}
     /\ Includes(procs[q].es.associatedWords, procs[p].x)) =>
      \A e \in DOMAIN examples : ~Includes(examples[e].associatedWords, procs[p].x)

C15_JoinBeforeFinishing ==
  [][\A p \in DOMAIN procs :
       /\ procs'[p].pc \in {"done", "failed"} =>
            \A e \in DOMAIN procs'[p].branches : procs'[p].branches[e] \in {"done", "failed"}
       /\ procs[p].pc \in {"done", "failed"} => procs'[p].branches = procs[p].branches]_vars

\* C15 amended: when mergeWord or deleteWord reports success, every parallel
\* branch has finished, and no branch writes after that report.
C15_JoinOnSuccess ==
  [][\A p \in DOMAIN procs :
       /\ procs'[p].pc = "done" =>
            \A e \in DOMAIN procs'[p].branches : procs'[p].branches[e] = "done"
       /\ procs[p].pc = "done" => procs'[p].branches = procs[p].branches]_vars

\* C15 witness: a mergeWord has reported success after both branches of its
\* cascade stamped their Example Suggestions, and a deleteWord after its
\* relinker saved two Examples
C15_Witness ==
  \E p, q \in DOMAIN procs :
    /\ procs[p].op = "mergeWord"
    /\ procs[p].pc = "done"
    /\ Cardinality(DOMAIN procs[p].branches) = 2
    /\ \A e \in DOMAIN procs[p].branches : exampleSuggestions[e].merged \in DOMAIN examples
    /\ procs[q].op = "deleteWord"
    /\ procs[q].pc = "done"
    /\ Cardinality(DOMAIN procs[q].branches) = 2

====
